---- MODULE Spec2Model ----
(***************************************************************************)
(* A model of swc-ts: the lifecycle coordinator (the launcher script that  *)
(* spawns the worker in its own process group) and the worker              *)
(* (src/src/swc-ts-build.ts: file compiler, batch builder, watch           *)
(* controller, declaration process supervisor).                            *)
(*                                                                         *)
(* The coordinator and the worker are separate operating-system processes  *)
(* with no shared memory; each has its own specification over its own      *)
(* variables (SpecCoord, SpecWorker, ...); the variables of the other      *)
(* process stay at their initial value.                                    *)
(***************************************************************************)
EXTENDS Integers, Sequences, FiniteSets, TLC

(***************************************************************************)
(* Bounds of the model.                                                    *)
(***************************************************************************)
\* termination requests (SIGINT/SIGTERM) the coordinator receives in one run
MaxRequests == 2
\* largest exit code the child reports
MaxCode == 2
\* clock ticks the model lets pass
MaxTicks == 7
\* milliseconds per clock tick (the clock stops at a timer's deadline on its way)
TickMs == 1000

\* source files present in the source directory of one run
MaxFiles == 3
\* add/change events the watcher delivers in one run
MaxEvents == 1
\* filesystem operations (mkdir, writeFile) that fail in one run
MaxFsFaults == 1
\* add/change events the watcher delivers in one run over a single-file tree
MaxRaceEvents == 2

\* declaration subprocesses the supervisor starts in one run
MaxStarts == 3

\* files of the project layout that are missing from the disk in one run
MaxMissing == 1

(***************************************************************************)
(* Program constants.                                                      *)
(***************************************************************************)
\* setTimeout(..., 5000): the grace period, in milliseconds
GraceMs == 5000
\* process.exit(1) of the coordinator's failure paths
FailStatus == 1

\* retrying(() => 1000, ...): the backoff before a restart, in milliseconds
BackoffMs == 1000

\* "no exit code": the `code` argument of 'exit' is null when a signal ended the child
NoCode == -1
\* child.pid is undefined when the spawn failed
NoPid == 0

ChildCodes == {NoCode} \cup (0..MaxCode)
ReqSignals == {"SIGINT", "SIGTERM"}

VARIABLES
    \* ---- lifecycle coordinator ----
    cPc,           \* "start" | "running" | "exited"
    coordStatus,   \* the status given to process.exit, NoCode while running
    exitVia,       \* which code path called process.exit
    childPid,      \* child.pid (NoPid: undefined)
    childState,    \* "none" | "running" | "dead": the child, as the OS has it
    childCode,     \* the exit code the dead child reports (NoCode: none)
    childSignal,   \* the signal that ended the child ("none": it exited by itself)
    exitListeners, \* the listeners of child 'exit', in registration order
    requests,      \* the termination requests handled so far: <<[sig, at]>>
    timers,        \* pending grace timers: the sequence of their deadlines (ms)
    sent,          \* the signals the coordinator sent: <<[sig, target, at]>>
    now,           \* milliseconds since the coordinator started
    \* ---- worker: batch builder, watch controller, file compiler ----
    mode,          \* "watch" | "build": argv.w
    hasMap,        \* whether the transformation engine returns a source map
    excludePatterns, \* tsconfig.exclude, loaded once by main
    present,       \* the source files in the source directory
    srcVer,        \* file -> the version of its text on disk (edits count up)
    phase,         \* "initializing" | "watching" | "built" | "exited"
    batchFiles,    \* the files glob returned to runBuild
    reported,      \* files.length as logged by "Build complete", NoCount before
    invs,          \* the compileFile invocations, in the order they were issued
    outFs,         \* output path -> text of the emitted file (Absent: no file)
    mapFs,         \* output path -> text of the map file (Absent: no file)
    mtime,         \* output path -> number of writes of the emitted file
    dirs,          \* the output directories mkdir has created
    faults,        \* filesystem operations that failed so far
    events,        \* the watcher events delivered so far: <<[kind, file]>>
    workerStatus,  \* the worker's exit status, NoCode while it runs
    \* ---- worker: declaration process supervisor ----
    tscMode,       \* "watch" | "build": the `watch` argument of startTsc
    supPc,         \* "idle" | "awaiting" | "backoff" | "done" | "failed"
    tscProc,       \* "none" | "running" | "errored" | "exited": the subprocess
    tscCode,       \* the exit code of the last subprocess to exit
    tscStarts,     \* subprocesses spawned so far
    tscTimer,      \* the pending backoff timer: <<deadline>>, or <<>>
    tscNow,        \* milliseconds since the worker started
    tscStatus,     \* the worker's exit status caused by the supervisor, NoCode if none
    tscLog,        \* the subprocess events so far: <<[ev, pid, at]>>
    \* ---- worker: import rewriter ----
    rwPc,          \* "called" | "resolved" | "returned" | "thrown"
    rwSpec,        \* importPath: the specifier to rewrite
    rwDisk,        \* the files on disk, by their path relative to process.cwd()
    rwResolved,    \* resolvedPath, NotFound before resolve() has returned one
    rwOut          \* the string resolveAndFixImport returned ("" before)

coordVars == <<cPc, coordStatus, exitVia, childPid, childState, childCode,
               childSignal, exitListeners, requests, timers, sent, now>>

workerVars == <<mode, hasMap, excludePatterns, present, srcVer, phase, batchFiles,
                reported, invs, outFs, mapFs, mtime, dirs, faults, events,
                workerStatus>>

tscVars == <<tscMode, supPc, tscProc, tscCode, tscStarts, tscTimer, tscNow, tscStatus,
             tscLog>>

rwVars == <<rwPc, rwSpec, rwDisk, rwResolved, rwOut>>

vars == <<coordVars, workerVars, tscVars, rwVars>>

(***************************************************************************)
(* Lifecycle coordinator                                                   *)
(***************************************************************************)

\* JavaScript's `code || 0`: null and 0 are falsy
OrZero(code) == IF code = NoCode \/ code = 0 THEN 0 ELSE code

\* process.kill(pid) in place of process.kill(-pid): the leader alone is signalled
killLeaderOnly(log, pid, signal, at) ==
    Append(log, [sig |-> signal, target |-> "process", pid |-> pid, at |-> at])

\* kill(pid, signal): process.kill(-pid, signal) signals the whole process group
\* of the child; a failure to deliver is caught and logged, never rethrown
kill(log, pid, signal, at) ==
    Append(log, [sig |-> signal, target |-> "group", pid |-> pid, at |-> at])

\* a listener that always reports success
ExitListenerAlwaysZero(kind, code) == 0

\* the status each kind of child 'exit' listener gives to process.exit:
\* main's listener (registered once, at start-up) exits with code || 0,
\* handleShutdown's listener (one per termination request) exits with 0
ExitListener(kind, code) ==
    IF kind = "main" THEN OrZero(code) ELSE 0

\* The event emitter calls the listeners in registration order; process.exit
\* never returns, so the first listener decides and the rest never run.
EmitExit(listeners, code) == ExitListener(Head(listeners), code)

\* a handler that cancels the pending timer and starts the grace period again
RearmTimer(pending, at) == <<at + GraceMs>>

\* a timer armed with no delay
ArmTimerNoGrace(pending, at) == Append(pending, at)

\* setTimeout(..., 5000) in handleShutdown: one more timer, due one grace
\* period from now; the timers already pending stay
ArmTimer(pending, at) == Append(pending, at + GraceMs)

CoordInit ==
    /\ cPc = "start"
    /\ coordStatus = NoCode
    /\ exitVia = "none"
    /\ childPid = NoPid
    /\ childState = "none"
    /\ childCode = NoCode
    /\ childSignal = "none"
    /\ exitListeners = <<>>
    /\ requests = <<>>
    /\ timers = <<>>
    /\ sent = <<>>
    /\ now = 0

\* main(), when start-up fails: no script to run (process.exit(1)), no tsx or
\* ts-node binary (main rejects, the catch exits 1), or the spawn itself fails
\* (child.pid undefined, 'error' emitted with no listener: the process dies
\* before any signal handler can run)
StartupFails ==
    /\ cPc = "start"
    /\ \E why \in {"noScript", "noBin", "spawnError"} :
         /\ cPc' = "exited"
         /\ coordStatus' = FailStatus
         /\ exitVia' = why
    /\ UNCHANGED <<childPid, childState, childCode, childSignal, exitListeners,
                   requests, timers, sent, now>>
    /\ UNCHANGED <<workerVars, tscVars, rwVars>>

\* main(), when start-up succeeds: the child is spawned detached, the signal
\* handlers are registered, then main's own 'exit' listener is registered
Startup ==
    /\ cPc = "start"
    /\ cPc' = "running"
    /\ childPid' = 1
    /\ childState' = "running"
    /\ exitListeners' = <<"main">>
    /\ UNCHANGED <<coordStatus, exitVia, childCode, childSignal, requests,
                   timers, sent, now>>
    /\ UNCHANGED <<workerVars, tscVars, rwVars>>

\* handleShutdown, run for each SIGINT or SIGTERM the coordinator receives
handleShutdown ==
    /\ cPc = "running"
    /\ Len(requests) < MaxRequests
    /\ \E s \in ReqSignals :
         requests' = Append(requests, [sig |-> s, at |-> now])
    /\ sent' = IF childPid # NoPid THEN kill(sent, childPid, "SIGTERM", now) ELSE sent
    /\ timers' = ArmTimer(timers, now)
    /\ exitListeners' = Append(exitListeners, "shutdown")
    /\ UNCHANGED <<cPc, coordStatus, exitVia, childPid, childState, childCode,
                   childSignal, now>>
    /\ UNCHANGED <<workerVars, tscVars, rwVars>>

\* the callback of a grace timer: SIGKILL to the group, then process.exit(1)
TimerFires ==
    /\ cPc = "running"
    /\ timers # <<>>
    /\ Head(timers) <= now
    /\ sent' = IF childPid # NoPid THEN kill(sent, childPid, "SIGKILL", now) ELSE sent
    /\ timers' = Tail(timers)
    /\ cPc' = "exited"
    /\ coordStatus' = FailStatus
    /\ exitVia' = "timer"
    /\ UNCHANGED <<childPid, childState, childCode, childSignal, exitListeners,
                   requests, now>>
    /\ UNCHANGED <<workerVars, tscVars, rwVars>>

\* the child ends, by itself or in reaction to a signal: with an exit code, or
\* with no code when a signal ended it
ChildDies ==
    /\ childState = "running"
    /\ \E code \in ChildCodes :
         /\ childCode' = code
         /\ \E sig \in {"none", "SIGTERM", "SIGKILL"} :
              /\ (code = NoCode) <=> (sig # "none")
              /\ childSignal' = sig
    /\ childState' = "dead"
    /\ UNCHANGED <<cPc, coordStatus, exitVia, childPid, exitListeners, requests,
                   timers, sent, now>>
    /\ UNCHANGED <<workerVars, tscVars, rwVars>>

\* the child's 'exit' event reaches the coordinator: the listeners run
ChildExitEvent ==
    /\ cPc = "running"
    /\ childState = "dead"
    /\ cPc' = "exited"
    /\ coordStatus' = EmitExit(exitListeners, childCode)
    /\ exitVia' = "childExit"
    /\ UNCHANGED <<childPid, childState, childCode, childSignal, exitListeners,
                   requests, timers, sent, now>>
    /\ UNCHANGED <<workerVars, tscVars, rwVars>>

\* time passes; a due timer fires before the clock moves on (timers are
\* appended with non-decreasing deadlines, so the head is the earliest); the
\* clock is followed up to MaxTicks ticks, and further while a timer is pending
Tick ==
    /\ cPc = "running"
    /\ now < MaxTicks * TickMs \/ timers # <<>>
    /\ \A i \in 1..Len(timers) : timers[i] > now
    /\ now' = IF timers # <<>> /\ Head(timers) < now + TickMs
                THEN Head(timers) ELSE now + TickMs
    /\ UNCHANGED <<cPc, coordStatus, exitVia, childPid, childState, childCode,
                   childSignal, exitListeners, requests, timers, sent>>
    /\ UNCHANGED <<workerVars, tscVars, rwVars>>

CoordNext ==
    \/ StartupFails
    \/ Startup
    \/ handleShutdown
    \/ TimerFires
    \/ ChildDies
    \/ ChildExitEvent
    \/ Tick


(***************************************************************************)
(* Worker: paths and exclusion                                             *)
(*                                                                         *)
(* A path is a sequence of segments and a segment a sequence of its        *)
(* dot-separated parts: "gen/c.spec.ts" is << <<"gen">>,                   *)
(* <<"c", "spec", "ts">> >>.  An absolute path starts with the empty       *)
(* segment (the text before its leading "/").                              *)
(***************************************************************************)

\* the source files a run may find, by their path relative to the source
\* directory; the text of bad.ts is rejected by the transformation engine, and
\* gen/c.spec.ts imports a module that is not on disk
fA    == [id |-> "a.ts",          dir |-> <<>>,          name |-> <<"a", "ts">>]
fAx   == [id |-> "a.tsx",         dir |-> <<>>,          name |-> <<"a", "tsx">>]
fBad  == [id |-> "bad.ts",        dir |-> <<>>,          name |-> <<"bad", "ts">>]
fSpec == [id |-> "gen/c.spec.ts", dir |-> << <<"gen">> >>, name |-> <<"c", "spec", "ts">>]
fDts  == [id |-> "t.d.ts",        dir |-> <<>>,          name |-> <<"t", "d", "ts">>]
Universe == {fA, fAx, fBad, fSpec, fDts}

\* process.cwd() is the project root /proj; the source directory is /proj/src
\* (path.resolve(argv.s)), the output directory /proj/dist
CwdAbs == << <<"">>, <<"proj">> >>
SrcRel == << <<"src">> >>
OutRel == << <<"dist">> >>

\* path.join(srcDir, relativePath): the absolute path of a source file
AbsPath(f) == CwdAbs \o SrcRel \o f.dir \o <<f.name>>
\* path.relative(process.cwd(), ...): the same file as glob's walker names it
CwdRelPath(f) == SrcRel \o f.dir \o <<f.name>>

\* glob patterns, segment by segment: "**", a literal name, or "*" + suffix
GlobStar == [kind |-> "globstar", parts |-> <<>>]
Lit(parts) == [kind |-> "lit", parts |-> parts]
StarSuffix(parts) == [kind |-> "star", parts |-> parts]

\* "**/*.spec.ts"
PatSpec == <<GlobStar, StarSuffix(<<"spec", "ts">>)>>
\* "src/gen/**": relative to the directory of tsconfig.json, the project root
PatGen == <<Lit(<<"src">>), Lit(<<"gen">>), GlobStar>>

\* the values of tsconfig.exclude the model draws from
ExcludeChoices == {<<>>, <<PatSpec>>, <<PatGen>>}

EndsWithParts(seg, suffix) ==
    /\ Len(seg) > Len(suffix)
    /\ SubSeq(seg, Len(seg) - Len(suffix) + 1, Len(seg)) = suffix

SegMatch(ps, seg) ==
    CASE ps.kind = "lit" -> seg = ps.parts
      [] ps.kind = "star" -> EndsWithParts(seg, ps.parts)
      [] OTHER -> FALSE

\* whether a glob pattern matches a path, as text (a globstar spans zero or
\* more whole segments)
RECURSIVE GlobMatch(_, _)
GlobMatch(pat, path) ==
    IF pat = <<>> THEN path = <<>>
    ELSE IF Head(pat).kind = "globstar"
         THEN \/ GlobMatch(Tail(pat), path)
              \/ path # <<>> /\ GlobMatch(pat, Tail(path))
         ELSE /\ path # <<>>
              /\ SegMatch(Head(pat), Head(path))
              /\ GlobMatch(Tail(pat), Tail(path))

\* micromatch.isMatch(filePath, patterns): the path text against any pattern
MicromatchIsMatch(path, patterns) ==
    \E i \in 1..Len(patterns) : GlobMatch(patterns[i], path)

IsAbsolutePattern(pat) == pat # <<>> /\ Head(pat) = Lit(<<"">>)

\* glob's `ignore`: a relative pattern is matched against the path relative to
\* the working directory, an absolute one against the full path
GlobIgnores(f, patterns) ==
    \E i \in 1..Len(patterns) :
        IF IsAbsolutePattern(patterns[i])
        THEN GlobMatch(patterns[i], AbsPath(f))
        ELSE GlobMatch(patterns[i], CwdRelPath(f))

\* runBuild's enumeration: glob(`${srcDir}/**/*.{ts,tsx}`, {ignore})
GlobFiles(files, patterns) ==
    {f \in files : /\ f.name[Len(f.name)] \in {"ts", "tsx"}
                   /\ f.name[1] # ""
                   /\ ~GlobIgnores(f, patterns)}

\* the watcher's `ignored` predicate for a path that is a file
IgnoredFile(path, patterns) ==
    LET base == path[Len(path)] IN
    \/ MicromatchIsMatch(path, patterns)
    \/ base[1] = ""
    \/ EndsWithParts(base, <<"d", "ts">>)
    \/ ~(base[Len(base)] = "ts" \/ base[Len(base)] = "tsx")

\* the watcher's `ignored` predicate for a directory
IgnoredDir(path, patterns) == MicromatchIsMatch(path, patterns)

\* the watcher walks down from the source directory with absolute paths: a
\* file sends events when neither it nor a directory on its way is ignored
WatchIgnores(f, patterns) ==
    \/ IgnoredFile(AbsPath(f), patterns)
    \/ \E k \in 0..Len(f.dir) :
         IgnoredDir(CwdAbs \o SrcRel \o SubSeq(f.dir, 1, k), patterns)

\* the output path: path.join(outDir, relativePath).replace(/\.tsx?$/, '.js')
OutPath(f) ==
    LET n == Len(f.name) IN
    [dir |-> OutRel \o f.dir,
     name |-> IF f.name[n] \in {"ts", "tsx"}
              THEN SubSeq(f.name, 1, n - 1) \o <<"js">>
              ELSE f.name]

OutPaths == {OutPath(f) : f \in Universe}


(***************************************************************************)
(* Worker: file compiler, batch builder, watch controller                  *)
(***************************************************************************)

\* Texts.  src and ver say which source text a text was compiled from, pad
\* whether it carries surrounding white space that trim() removes, ref whether
\* it ends with the sourceMappingURL comment.
Absent == [src |-> "", ver |-> 0, pad |-> 0, ref |-> FALSE]

\* String.prototype.trim
Trim(t) == [t EXCEPT !.pad = 0]

\* whether transformFile rejects the text of f at version v
TransformFails(f, v) == f = fBad

\* whether the rewrite of the import specifiers of f at version v throws:
\* resolveAndFixImport logs and rethrows the error of resolve
RewriteThrows(f, v) == f = fSpec

\* transformFile's code with its import specifiers rewritten, plus the
\* sourceMappingURL comment when the engine returned a map
FixedCode(f, v, map) == [src |-> f.id, ver |-> v, pad |-> 0, ref |-> map]

\* transformFile's map
MapText(f, v) == [src |-> f.id, ver |-> v, pad |-> 0, ref |-> FALSE]

\* a write with no comparison
NeedsWriteAlways(fixedCode, existingCode) == TRUE

\* compileFile's write decision: fixedCode.trim() !== existingCode.trim()
NeedsWrite(fixedCode, existingCode) == Trim(fixedCode) # Trim(existingCode)

\* compileFile's catch: the error is logged and the promise still resolves
compileFileCatch == "failed"

Fulfilled(pc) == pc \in {"written", "skipped", "failed"}
Settled(pc) == Fulfilled(pc) \/ pc = "rejected"

\* an invocation that creates the output directory before anything else
NewInvMkdirFirst(f, origin) == [file |-> f, origin |-> origin, pc |-> "mkdir", ver |-> 0]

\* the invocation compileFile(path.join(srcDir, f), ...) at its first await
NewInv(f, origin) == [file |-> f, origin |-> origin, pc |-> "transform", ver |-> 0]

\* the order in which glob lists the files
Rank(f) == CASE f = fA -> 1 [] f = fAx -> 2 [] f = fBad -> 3 [] f = fSpec -> 4
             [] OTHER -> 5

\* a set of files as the sequence glob returns
RECURSIVE SeqOfFiles(_)
SeqOfFiles(S) ==
    IF S = {} THEN <<>>
    ELSE LET f == CHOOSE x \in S : \A y \in S : Rank(x) <= Rank(y)
         IN <<f>> \o SeqOfFiles(S \ {f})

RECURSIVE InvsOf(_, _)
InvsOf(files, origin) ==
    IF files = <<>> THEN <<>>
    ELSE <<NewInv(Head(files), origin)>> \o InvsOf(Tail(files), origin)

\* the source trees the model draws from
SourceTrees == {S \in SUBSET Universe : S # {} /\ Cardinality(S) <= MaxFiles}

\* what the output directory holds before the run: nothing, the output of an
\* older source text, or the current output with other surrounding white space
PreStates == {"none", "stale", "padded"}

PreText(pre, o, map) ==
    LET f == CHOOSE x \in Universe : OutPath(x) = o /\ \A y \in Universe :
                 OutPath(y) = o => (x = y \/ x = fA)
    IN CASE pre = "none" -> Absent
         [] pre = "stale" -> [src |-> f.id, ver |-> 0, pad |-> 0, ref |-> map]
         [] OTHER -> [src |-> f.id, ver |-> 1, pad |-> 1, ref |-> map]

WorkerInit ==
    /\ mode \in {"watch", "build"}
    /\ hasMap \in BOOLEAN
    /\ excludePatterns \in ExcludeChoices
    /\ present \in SourceTrees
    /\ srcVer = [f \in Universe |-> 1]
    /\ phase = "initializing"
    /\ batchFiles = <<>>
    /\ reported = <<>>
    /\ invs = <<>>
    /\ \E pre \in PreStates :
         /\ outFs = [o \in OutPaths |-> PreText(pre, o, hasMap)]
         /\ mapFs = [o \in OutPaths |->
                       IF hasMap THEN PreText(pre, o, FALSE) ELSE Absent]
         /\ dirs = IF pre = "none" THEN {} ELSE {o.dir : o \in OutPaths}
    /\ mtime = [o \in OutPaths |-> 0]
    /\ faults = 0
    /\ events = <<>>
    /\ workerStatus = NoCode

\* runBuild: glob resolves, and files.map issues one compileFile per file,
\* each running to its first await (the call of transformFile)
RunBuildGlob ==
    /\ phase = "initializing"
    /\ batchFiles = <<>>
    /\ LET files == GlobFiles(present, excludePatterns) IN
         /\ batchFiles' = <<files>>
         /\ invs' = InvsOf(SeqOfFiles(files), "batch")
    /\ UNCHANGED <<mode, hasMap, excludePatterns, present, srcVer, phase, reported,
                   outFs, mapFs, mtime, dirs, faults, events, workerStatus>>
    /\ UNCHANGED <<coordVars, tscVars, rwVars>>

\* runBuild: glob rejects; main's promise rejects and the catch exits 1
GlobFails ==
    /\ phase = "initializing"
    /\ batchFiles = <<>>
    /\ phase' = "exited"
    /\ workerStatus' = FailStatus
    /\ UNCHANGED <<mode, hasMap, excludePatterns, present, srcVer, batchFiles,
                   reported, invs, outFs, mapFs, mtime, dirs, faults, events>>
    /\ UNCHANGED <<coordVars, tscVars, rwVars>>

BatchIdx == {i \in 1..Len(invs) : invs[i].origin = "batch"}

\* a combinator that settles with the first compile to settle
BatchDoneAny == \E i \in BatchIdx : Fulfilled(invs[i].pc)

\* Promise.all(files.map(...)) resolves: every compile has resolved
BatchDone == \A i \in BatchIdx : Fulfilled(invs[i].pc)

\* runBuild: Promise.all settles. It resolves when every compile has resolved
\* ("Build complete. Processed N files"), after which runWatch attaches the
\* watcher; it rejects as soon as one compile rejects, which ends main.
RunBuildSettles ==
    /\ phase = "initializing"
    /\ batchFiles # <<>>
    /\ IF \E i \in BatchIdx : invs[i].pc = "rejected"
       THEN /\ phase' = "exited"
            /\ workerStatus' = FailStatus
            /\ UNCHANGED reported
       ELSE /\ BatchDone
            /\ reported' = <<Cardinality(batchFiles[1])>>
            /\ phase' = IF mode = "watch" THEN "watching" ELSE "built"
            /\ UNCHANGED workerStatus
    /\ UNCHANGED <<mode, hasMap, excludePatterns, present, srcVer, batchFiles,
                   invs, outFs, mapFs, mtime, dirs, faults, events>>
    /\ UNCHANGED <<coordVars, tscVars, rwVars>>

\* the files whose add/change events reach the handlers
Watched == {f \in present : ~WatchIgnores(f, excludePatterns)}

\* the 'add' handler: compileFile for exactly the file of the event
OnAdd(f) == <<NewInv(f, "watch")>>

\* a handler that runs the whole batch again
OnChangeRescan(f) == InvsOf(SeqOfFiles(GlobFiles(present, excludePatterns)), "watch")

\* the 'change' handler: compileFile for exactly the file of the event
OnChange(f) == <<NewInv(f, "watch")>>

\* the watcher reports a file it found (its first scan, or a file put back);
\* the run is followed for cap events
WatchAddUpTo(cap) ==
    /\ phase = "watching"
    /\ Len(events) < cap
    /\ \E f \in Watched :
         /\ invs' = invs \o OnAdd(f)
         /\ events' = Append(events, [kind |-> "add", file |-> f])
    /\ UNCHANGED <<mode, hasMap, excludePatterns, present, srcVer, phase, batchFiles,
                   reported, outFs, mapFs, mtime, dirs, faults, workerStatus>>
    /\ UNCHANGED <<coordVars, tscVars, rwVars>>

WatchAdd == WatchAddUpTo(MaxEvents)

\* a source file is edited and the watcher reports the change; the run is
\* followed for cap events
WatchChangeUpTo(cap) ==
    /\ phase = "watching"
    /\ Len(events) < cap
    /\ \E f \in Watched :
         /\ srcVer' = [srcVer EXCEPT ![f] = @ + 1]
         /\ invs' = invs \o OnChange(f)
         /\ events' = Append(events, [kind |-> "change", file |-> f])
    /\ UNCHANGED <<mode, hasMap, excludePatterns, present, phase, batchFiles,
                   reported, outFs, mapFs, mtime, dirs, faults, workerStatus>>
    /\ UNCHANGED <<coordVars, tscVars, rwVars>>

WatchChange == WatchChangeUpTo(MaxEvents)

Running == phase \in {"initializing", "watching", "built"}

\* compileFile, transformFile settles: the engine has read the source text as
\* it is now, and the import specifiers of its code are rewritten; on a
\* rejection of the engine or an error of the rewrite the catch handles it
TransformDone ==
    /\ Running
    /\ \E i \in 1..Len(invs) :
         /\ invs[i].pc = "transform"
         /\ LET f == invs[i].file IN
              invs' = IF TransformFails(f, srcVer[f]) \/ RewriteThrows(f, srcVer[f])
                      THEN [invs EXCEPT ![i].pc = compileFileCatch]
                      ELSE [invs EXCEPT ![i].pc = "read", ![i].ver = srcVer[f]]
    /\ UNCHANGED <<mode, hasMap, excludePatterns, present, srcVer, phase, batchFiles,
                   reported, outFs, mapFs, mtime, dirs, faults, events, workerStatus>>
    /\ UNCHANGED <<coordVars, tscVars, rwVars>>

\* compileFile, readFile(outPath) settles (a missing file reads as ``), and
\* the texts are compared
ReadDone ==
    /\ Running
    /\ \E i \in 1..Len(invs) :
         /\ invs[i].pc = "read"
         /\ LET f == invs[i].file
                existingCode == outFs[OutPath(f)]
            IN invs' = IF NeedsWrite(FixedCode(f, invs[i].ver, hasMap), existingCode)
                       THEN [invs EXCEPT ![i].pc = "mkdir"]
                       ELSE [invs EXCEPT ![i].pc = "skipped"]
    /\ UNCHANGED <<mode, hasMap, excludePatterns, present, srcVer, phase, batchFiles,
                   reported, outFs, mapFs, mtime, dirs, faults, events, workerStatus>>
    /\ UNCHANGED <<coordVars, tscVars, rwVars>>

\* compileFile, mkdir(path.dirname(outPath), {recursive: true}) settles
MkdirDone ==
    /\ Running
    /\ \E i \in 1..Len(invs) :
         /\ invs[i].pc = "mkdir"
         /\ dirs' = dirs \cup {OutPath(invs[i].file).dir}
         /\ invs' = [invs EXCEPT ![i].pc = "writeCode"]
    /\ UNCHANGED <<mode, hasMap, excludePatterns, present, srcVer, phase, batchFiles,
                   reported, outFs, mapFs, mtime, faults, events, workerStatus>>
    /\ UNCHANGED <<coordVars, tscVars, rwVars>>

\* compileFile, writeFile(outPath, fixedCode) settles
WriteCodeDone ==
    /\ Running
    /\ \E i \in 1..Len(invs) :
         /\ invs[i].pc = "writeCode"
         /\ LET f == invs[i].file IN
              /\ outFs' = [outFs EXCEPT ![OutPath(f)] = FixedCode(f, invs[i].ver, hasMap)]
              /\ mtime' = [mtime EXCEPT ![OutPath(f)] = @ + 1]
         /\ invs' = [invs EXCEPT ![i].pc = IF hasMap THEN "writeMap" ELSE "written"]
    /\ UNCHANGED <<mode, hasMap, excludePatterns, present, srcVer, phase, batchFiles,
                   reported, mapFs, dirs, faults, events, workerStatus>>
    /\ UNCHANGED <<coordVars, tscVars, rwVars>>

\* compileFile, writeFile(mapPath, map) settles
WriteMapDone ==
    /\ Running
    /\ \E i \in 1..Len(invs) :
         /\ invs[i].pc = "writeMap"
         /\ LET f == invs[i].file IN
              mapFs' = [mapFs EXCEPT ![OutPath(f)] = MapText(f, invs[i].ver)]
         /\ invs' = [invs EXCEPT ![i].pc = "written"]
    /\ UNCHANGED <<mode, hasMap, excludePatterns, present, srcVer, phase, batchFiles,
                   reported, outFs, mtime, dirs, faults, events, workerStatus>>
    /\ UNCHANGED <<coordVars, tscVars, rwVars>>

\* compileFile, mkdir or writeFile rejects: the catch handles it
FsFault ==
    /\ Running
    /\ faults < MaxFsFaults
    /\ \E i \in 1..Len(invs) :
         /\ invs[i].pc \in {"mkdir", "writeCode", "writeMap"}
         /\ invs' = [invs EXCEPT ![i].pc = compileFileCatch]
    /\ faults' = faults + 1
    /\ UNCHANGED <<mode, hasMap, excludePatterns, present, srcVer, phase, batchFiles,
                   reported, outFs, mapFs, mtime, dirs, events, workerStatus>>
    /\ UNCHANGED <<coordVars, tscVars, rwVars>>

WorkerNext ==
    \/ RunBuildGlob
    \/ GlobFails
    \/ RunBuildSettles
    \/ WatchAdd
    \/ WatchChange
    \/ TransformDone
    \/ ReadDone
    \/ MkdirDone
    \/ WriteCodeDone
    \/ WriteMapDone
    \/ FsFault

\* The watch controller over a tree of one source file, followed for more events
RaceInit ==
    /\ WorkerInit
    /\ mode = "watch"
    /\ excludePatterns = <<>>
    /\ present = {fA}

RaceAdd == WatchAddUpTo(MaxRaceEvents)

RaceChange == WatchChangeUpTo(MaxRaceEvents)

RaceNext ==
    \/ RunBuildGlob
    \/ GlobFails
    \/ RunBuildSettles
    \/ RaceAdd
    \/ RaceChange
    \/ TransformDone
    \/ ReadDone
    \/ MkdirDone
    \/ WriteCodeDone
    \/ WriteMapDone
    \/ FsFault

(***************************************************************************)
(* Worker: declaration process supervisor                                  *)
(***************************************************************************)

\* startTsc's 'exit' listener: resolve(code) when code === 0, else reject
startTscOnExit(code) == IF code = 0 THEN "resolved" ELSE "rejected"

\* What the caller does when startTsc's promise settles. In watch mode the
\* caller is retrying(() => 1000, ...): a rejection is retried after the delay,
\* a resolution ends the retrying. In build mode the caller is main's
\* Promise.all: a rejection rejects main, whose catch exits 1.
OnTscSettled(m, outcome) ==
    IF m = "watch"
    THEN (IF outcome = "rejected" THEN "backoff" ELSE "done")
    ELSE (IF outcome = "rejected" THEN "failed" ELSE "done")

\* the delay retrying waits before it calls startTsc again
RetryAtOnce(at) == at

\* retrying(() => 1000, ...): the next call is due one backoff after the rejection
RetryAt(at) == at + BackoffMs

TscInit ==
    /\ tscMode \in {"watch", "build"}
    /\ supPc = "idle"
    /\ tscProc = "none"
    /\ tscCode = NoCode
    /\ tscStarts = 0
    /\ tscTimer = <<>>
    /\ tscNow = 0
    /\ tscStatus = NoCode
    /\ tscLog = <<>>

\* main calls startTsc (through retrying in watch mode): the subprocess is
\* spawned and the promise is pending
TscStart ==
    /\ supPc = "idle"
    /\ supPc' = "awaiting"
    /\ tscProc' = "running"
    /\ tscStarts' = 1
    /\ tscLog' = Append(tscLog, [ev |-> "start", pid |-> 1, at |-> tscNow])
    /\ UNCHANGED <<tscMode, tscCode, tscTimer, tscNow, tscStatus>>
    /\ UNCHANGED <<coordVars, workerVars, rwVars>>

\* the subprocess emits 'error' (it could not be spawned): the listener logs,
\* and the promise stays pending
TscError ==
    /\ supPc = "awaiting"
    /\ tscProc = "running"
    /\ tscProc' = "errored"
    /\ tscLog' = Append(tscLog, [ev |-> "error", pid |-> tscStarts, at |-> tscNow])
    /\ UNCHANGED <<tscMode, supPc, tscCode, tscStarts, tscTimer, tscNow, tscStatus>>
    /\ UNCHANGED <<coordVars, workerVars, rwVars>>

\* the subprocess emits 'exit' (after 'error' it may or may not): the promise
\* settles and its caller reacts
TscExit ==
    /\ supPc = "awaiting"
    /\ tscProc \in {"running", "errored"}
    /\ \E code \in ChildCodes :
         /\ tscCode' = code
         /\ LET next == OnTscSettled(tscMode, startTscOnExit(code)) IN
              /\ supPc' = next
              /\ tscTimer' = IF next = "backoff" THEN <<RetryAt(tscNow)>> ELSE <<>>
              /\ tscStatus' = IF next = "failed" THEN FailStatus ELSE NoCode
    /\ tscProc' = "exited"
    /\ tscLog' = Append(tscLog, [ev |-> "exit", pid |-> tscStarts, at |-> tscNow])
    /\ UNCHANGED <<tscMode, tscStarts, tscNow>>
    /\ UNCHANGED <<coordVars, workerVars, rwVars>>

\* the backoff has elapsed: retrying calls startTsc again
TscRestart ==
    /\ supPc = "backoff"
    /\ tscStarts < MaxStarts
    /\ tscTimer # <<>>
    /\ tscTimer[1] <= tscNow
    /\ supPc' = "awaiting"
    /\ tscProc' = "running"
    /\ tscStarts' = tscStarts + 1
    /\ tscTimer' = <<>>
    /\ tscLog' = Append(tscLog, [ev |-> "start", pid |-> tscStarts + 1, at |-> tscNow])
    /\ UNCHANGED <<tscMode, tscCode, tscNow, tscStatus>>
    /\ UNCHANGED <<coordVars, workerVars, rwVars>>

\* time passes; a due timer fires before the clock moves on
TscTick ==
    /\ tscStatus = NoCode
    /\ supPc # "idle"
    /\ tscNow < MaxTicks * TickMs
    /\ tscTimer # <<>> => tscTimer[1] > tscNow
    /\ tscNow' = IF tscTimer # <<>> /\ tscTimer[1] < tscNow + TickMs
                 THEN tscTimer[1] ELSE tscNow + TickMs
    /\ UNCHANGED <<tscMode, supPc, tscProc, tscCode, tscStarts, tscTimer, tscStatus,
                   tscLog>>
    /\ UNCHANGED <<coordVars, workerVars, rwVars>>

TscNext ==
    \/ TscStart
    \/ TscError
    \/ TscExit
    \/ TscRestart
    \/ TscTick

\* the supervisor's variables, at rest
TscIdle ==
    /\ tscMode = "build"
    /\ supPc = "idle"
    /\ tscProc = "none"
    /\ tscCode = NoCode
    /\ tscStarts = 0
    /\ tscTimer = <<>>
    /\ tscNow = 0
    /\ tscStatus = NoCode
    /\ tscLog = <<>>

(***************************************************************************)
(* Worker: import rewriter                                                 *)
(*                                                                         *)
(* Specifiers and paths are strings.  The file being compiled is           *)
(* /proj/src/a.ts and process.cwd() is /proj; the files on disk are named  *)
(* by their path relative to /proj.                                        *)
(***************************************************************************)

\* the character of s at position i (1-based)
Ch(s, i) == SubSeq(s, i, i)

\* String.prototype.startsWith
StartsWith(s, pre) == Len(s) >= Len(pre) /\ SubSeq(s, 1, Len(pre)) = pre

\* String.prototype.lastIndexOf, 1-based, 0 when c does not occur
LastIndexOf(s, c) ==
    LET I == {i \in 1..Len(s) : Ch(s, i) = c} IN
    IF I = {} THEN 0 ELSE CHOOSE i \in I : \A j \in I : j <= i

\* path.basename
basename(p) == SubSeq(p, LastIndexOf(p, "/") + 1, Len(p))

\* path.extname: from the last "." of the basename, "" when there is none or
\* when it is the first character of the basename
extname(p) ==
    LET b == basename(p)
        i == LastIndexOf(b, ".")
    IN IF i <= 1 THEN "" ELSE SubSeq(b, i, Len(b))

\* the characters of the class [a-zA-Z0-9_-]
WordChars ==
    {"a", "b", "c", "d", "e", "f", "g", "h", "i", "j", "k", "l", "m", "n", "o",
     "p", "q", "r", "s", "t", "u", "v", "w", "x", "y", "z", "A", "B", "C", "D",
     "E", "F", "G", "H", "I", "J", "K", "L", "M", "N", "O", "P", "Q", "R", "S",
     "T", "U", "V", "W", "X", "Y", "Z", "0", "1", "2", "3", "4", "5", "6", "7",
     "8", "9", "_", "-"}

\* [a-zA-Z0-9_-]+
IsWord(s) == Len(s) > 0 /\ \A i \in 1..Len(s) : Ch(s, i) \in WordChars

\* /^(?:@[a-zA-Z0-9_-]+\/)?[a-zA-Z0-9_-]+$/.test(importPath)
BarePackageName(s) ==
    \/ IsWord(s)
    \/ /\ StartsWith(s, "@")
       /\ \E k \in 3..(Len(s) - 1) :
            /\ Ch(s, k) = "/"
            /\ IsWord(SubSeq(s, 2, k - 1))
            /\ IsWord(SubSeq(s, k + 1, Len(s)))

\* /(?:^|..\/)+node_modules\//.test(relativeToCwd): "node_modules/" at the
\* start, or after any two characters and a "/"
NodeModulesTest(rel) ==
    \E i \in 1..(Len(rel) - 12) :
        /\ SubSeq(rel, i, i + 12) = "node_modules/"
        /\ i = 1 \/ (i >= 4 /\ Ch(rel, i - 1) = "/")

\* the layout of the project: sources, a data file, a style sheet, a plain
\* script, and installed packages
ProjectFiles ==
    {"src/helper.ts", "src/view.tsx", "src/util/index.ts", "src/data.json",
     "src/styles.css", "src/legacy.js", "node_modules/lodash/index.js",
     "node_modules/lodash/fp.js", "node_modules/@scope/pkg/index.js"}

\* the disks a run may find: the layout, less a few files
Disks == {ProjectFiles \ M : M \in {X \in SUBSET ProjectFiles : Cardinality(X) <= MaxMissing}}

\* the specifiers found in the compiled code
Specifiers ==
    {"./helper", "./helper.ts", "./view", "./view.tsx", "./util", "./util/index",
     "./util/index.ts", "./data.json", "./styles.css", "./legacy.js", "./legacy",
     "lodash", "@scope/pkg", "lodash/fp", "fs/promises", "./missing"}

\* modules built into the runtime: require.resolve returns their name
Builtins == {"fs", "path", "fs/promises"}

\* the extensions require.resolve tries; the worker runs under tsx or ts-node
\* (the launcher picks one), which register the source extensions
ResolveExts == <<".js", ".json", ".node", ".ts", ".tsx">>

NotFound == [found |-> FALSE, abs |-> FALSE, rel |-> ""]

\* the paths require.resolve looks at for a request based at base: the file
\* itself, the file with each extension, the directory's index
LoadCandidates(base) ==
    <<base>> \o [i \in 1..Len(ResolveExts) |-> base \o ResolveExts[i]]
             \o [i \in 1..Len(ResolveExts) |-> base \o "/index" \o ResolveExts[i]]

\* require.resolve(p, {paths: [path.dirname(fileBeingCompiled)]})
RequireResolve(request, disk) ==
    IF request \in Builtins THEN [found |-> TRUE, abs |-> FALSE, rel |-> request]
    ELSE LET base == IF StartsWith(request, "./")
                     THEN "src/" \o SubSeq(request, 3, Len(request))
                     ELSE "node_modules/" \o request
             cands == LoadCandidates(base)
             hits == {i \in 1..Len(cands) : cands[i] \in disk}
         IN IF hits = {} THEN NotFound
            ELSE [found |-> TRUE, abs |-> TRUE,
                  rel |-> cands[CHOOSE i \in hits : \A j \in hits : i <= j]]

\* resolve: the specifier itself, then with .ts, .tsx and .js appended; the
\* first that require.resolve finds, NotFound (the error is thrown) if none
resolve(importPath, disk) ==
    LET tries == <<importPath, importPath \o ".ts", importPath \o ".tsx",
                   importPath \o ".js">>
        ok == {i \in 1..Len(tries) : RequireResolve(tries[i], disk).found}
    IN IF ok = {} THEN NotFound
       ELSE RequireResolve(tries[CHOOSE i \in ok : \A j \in ok : i <= j], disk)

\* resolveAndFixImport, the two tests made before any resolution
ReturnsUnresolved(importPath) ==
    extname(importPath) = ".json" \/ BarePackageName(importPath)

\* `${importPath.slice(0, -3)}.js`
SwapExt(importPath) == SubSeq(importPath, 1, Len(importPath) - 3) \o ".js"

\* resolveAndFixImport, from the resolved path to the returned specifier
FixResolved(importPath, r) ==
    IF ~r.abs THEN importPath
    ELSE IF NodeModulesTest(r.rel) THEN importPath
    ELSE IF basename(r.rel) \in {"index.js", "index.ts"} THEN importPath \o "/index.js"
    ELSE IF extname(importPath) \in {".ts", ".tsx"} THEN SwapExt(importPath)
    ELSE importPath \o ".js"

RwInit ==
    /\ rwPc = "called"
    /\ rwSpec \in Specifiers
    /\ rwDisk \in Disks
    /\ rwResolved = NotFound
    /\ rwOut = ""

\* resolveAndFixImport returns the specifier before resolving anything
RwReturnUnresolved ==
    /\ rwPc = "called"
    /\ ReturnsUnresolved(rwSpec)
    /\ rwOut' = rwSpec
    /\ rwPc' = "returned"
    /\ UNCHANGED <<rwSpec, rwDisk, rwResolved>>
    /\ UNCHANGED <<coordVars, workerVars, tscVars>>

\* resolveAndFixImport calls resolve: a path comes back, or the error is
\* logged and thrown again
RwResolve ==
    /\ rwPc = "called"
    /\ ~ReturnsUnresolved(rwSpec)
    /\ rwResolved' = resolve(rwSpec, rwDisk)
    /\ rwPc' = IF rwResolved'.found THEN "resolved" ELSE "thrown"
    /\ UNCHANGED <<rwSpec, rwDisk, rwOut>>
    /\ UNCHANGED <<coordVars, workerVars, tscVars>>

\* resolveAndFixImport returns the specifier fixed for the resolved path
RwReturnFixed ==
    /\ rwPc = "resolved"
    /\ rwOut' = FixResolved(rwSpec, rwResolved)
    /\ rwPc' = "returned"
    /\ UNCHANGED <<rwSpec, rwDisk, rwResolved>>
    /\ UNCHANGED <<coordVars, workerVars, tscVars>>

RwNext ==
    \/ RwReturnUnresolved
    \/ RwResolve
    \/ RwReturnFixed

\* the rewriter's variables, at rest
RwIdle ==
    /\ rwPc = "called"
    /\ rwSpec = ""
    /\ rwDisk = {}
    /\ rwResolved = NotFound
    /\ rwOut = ""

\* the coordinator's variables, at rest
CoordIdle == CoordInit

\* the worker's variables, at rest
WorkerIdle ==
    /\ mode = "build"
    /\ hasMap = FALSE
    /\ excludePatterns = <<>>
    /\ present = {}
    /\ srcVer = [f \in Universe |-> 1]
    /\ phase = "initializing"
    /\ batchFiles = <<>>
    /\ reported = <<>>
    /\ invs = <<>>
    /\ outFs = [o \in OutPaths |-> Absent]
    /\ mapFs = [o \in OutPaths |-> Absent]
    /\ mtime = [o \in OutPaths |-> 0]
    /\ dirs = {}
    /\ faults = 0
    /\ events = <<>>
    /\ workerStatus = NoCode

\* the coordinator starts; the worker is not modelled
InitCoord == CoordInit /\ WorkerIdle /\ TscIdle /\ RwIdle
SpecCoord == InitCoord /\ [][CoordNext]_vars

\* the same, with the scheduling the runtime guarantees: time passes, and the
\* callback of a due timer is run
SpecCoordFair == SpecCoord /\ WF_vars(Tick) /\ WF_vars(TimerFires)

\* the worker starts (batch builder, watch controller, file compiler)
InitWorker == WorkerInit /\ CoordIdle /\ TscIdle /\ RwIdle
SpecWorker == InitWorker /\ [][WorkerNext]_vars

\* the worker starts on a tree of one source file
InitRace == RaceInit /\ CoordIdle /\ TscIdle /\ RwIdle
SpecRace == InitRace /\ [][RaceNext]_vars

\* the worker starts (declaration process supervisor)
InitTsc == TscInit /\ CoordIdle /\ WorkerIdle /\ RwIdle
SpecTsc == InitTsc /\ [][TscNext]_vars

\* resolveAndFixImport is called on one specifier
InitRewrite == RwInit /\ CoordIdle /\ WorkerIdle /\ TscIdle
SpecRewrite == InitRewrite /\ [][RwNext]_vars


(***************************************************************************)
(* Claims about the lifecycle coordinator (checked under SpecCoord)        *)
(***************************************************************************)

SigkillSent == \E i \in 1..Len(sent) : sent[i].sig = "SIGKILL"

\* C1: after a termination request, when the child exits before the grace
\* timer fires, the coordinator exits with status 0 whatever exit code or
\* signal the child reports, and no SIGKILL is sent.
C1_GracefulExitIsSuccess ==
    (cPc = "exited" /\ exitVia = "childExit" /\ Len(requests) > 0)
        => (coordStatus = 0 /\ ~SigkillSent)

\* C2: when a grace timer fires (termination requested, the child's exit not
\* observed), the last thing the coordinator did before exiting was to send
\* SIGKILL to the child's whole process group, one grace period after the
\* first request, and its exit status is nonzero.
C2_EscalationKillsGroupAndFails ==
    (cPc = "exited" /\ exitVia = "timer")
        => /\ coordStatus # 0
           /\ Len(requests) > 0
           /\ Len(sent) = Len(requests) + 1
           /\ sent[Len(sent)].sig = "SIGKILL"
           /\ sent[Len(sent)].target = "group"
           /\ sent[Len(sent)].pid = childPid
           /\ sent[Len(sent)].at = requests[1].at + GraceMs
           /\ \A i \in 1..Len(requests) :
                sent[i].sig = "SIGTERM" /\ sent[i].target = "group"

\* the grace timer fired while the child was still running
C2_Witness ==
    /\ cPc = "exited"
    /\ exitVia = "timer"
    /\ childState = "running"
    /\ SigkillSent

\* C3: when the child exits and no termination request was received, the
\* coordinator exits with the child's exit code, and with 0 when the child
\* reports no exit code.
C3_SpontaneousExitCode ==
    (cPc = "exited" /\ exitVia = "childExit" /\ Len(requests) = 0)
        => /\ childCode # NoCode => coordStatus = childCode
           /\ childCode = NoCode => coordStatus = 0
           /\ sent = <<>>

\* the child was ended by a signal, nobody asked the coordinator to stop
C3_Witness ==
    /\ cPc = "exited"
    /\ exitVia = "childExit"
    /\ Len(requests) = 0
    /\ childCode = NoCode
    /\ childSignal # "none"
    /\ coordStatus = 0

\* C16: once a termination request was received the coordinator eventually
\* exits, and at no time while it runs, nor when it exits, is the clock
\* further than one grace period past the first request, whatever the child
\* does and however many further requests arrive.
C16_ShutdownCompletes ==
    /\ (requests # <<>>) ~> (cPc = "exited")
    /\ [](requests # <<>> => now <= requests[1].at + GraceMs)

\* a second request came later than the first, the child never exited, and
\* the first timer ended the coordinator
C16_Witness ==
    /\ cPc = "exited"
    /\ exitVia = "timer"
    /\ Len(requests) >= 2
    /\ requests[2].at > requests[1].at
    /\ now = requests[1].at + GraceMs
    /\ childState = "running"

\* C17: a SIGKILL was sent only to the child's process group, after a
\* termination request, after a SIGTERM to the same group, no sooner than one
\* grace period after that request, and with the child's exit not observed;
\* once the child's exit is observed (or the coordinator has exited otherwise)
\* no further signal is sent.
C17_EscalationSafety ==
    /\ [](\A i \in 1..Len(sent) :
            sent[i].sig = "SIGKILL" =>
                /\ requests # <<>>
                /\ sent[i].target = "group"
                /\ exitVia # "childExit"
                /\ \E j \in 1..(i - 1) :
                     /\ sent[j].sig = "SIGTERM"
                     /\ sent[j].target = "group"
                     /\ sent[j].pid = sent[i].pid
                     /\ sent[j].at = requests[j].at
                     /\ sent[i].at >= requests[j].at + GraceMs)
    /\ [][cPc = "exited" => sent' = sent]_vars
    /\ [][exitVia' = "childExit" => sent' = sent]_vars

\* the child had ended, its exit was not yet observed, and the timer sent
\* SIGKILL to its group
C17_Witness ==
    /\ cPc = "exited"
    /\ exitVia = "timer"
    /\ childState = "dead"
    /\ sent[Len(sent)].sig = "SIGKILL"
    /\ Len(sent) >= 2

(***************************************************************************)
(* Claims about the batch builder, the watch controller and the file       *)
(* compiler (checked under SpecWorker)                                     *)
(***************************************************************************)

WatchIdx == {i \in 1..Len(invs) : invs[i].origin = "watch"}
WritePending(i) == invs[i].pc \in {"mkdir", "writeCode", "writeMap"}

\* C4: in watch mode every compile of the initial batch has settled before a
\* watch-triggered compile begins (a watch-triggered compile exists only in
\* phase watching, which is entered from initializing with the batch settled
\* and its count reported), and once watching the controller stays watching.
C4_BatchBeforeWatch ==
    /\ [](/\ (WatchIdx # {} \/ phase = "watching")
               => /\ mode = "watch"
                  /\ phase = "watching"
                  /\ batchFiles # <<>>
                  /\ reported # <<>>
                  /\ Cardinality(BatchIdx) = Cardinality(batchFiles[1])
                  /\ \A j \in BatchIdx : Settled(invs[j].pc)
          /\ \A i \in WatchIdx : \A j \in BatchIdx : j < i)
    /\ [][/\ phase = "watching" => phase' = "watching"
          /\ (phase # "watching" /\ phase' = "watching")
               => (phase = "initializing" /\ WatchIdx = {})]_vars

\* a watch-triggered compile has begun after a batch of two or more files
C4_Witness ==
    /\ phase = "watching"
    /\ Cardinality(BatchIdx) >= 2
    /\ \E i \in WatchIdx : invs[i].pc = "transform"

\* C5: no two compile invocations with a write pending target the same output
\* path at the same time.
C5_OneWritePerOutPath ==
    \A i, j \in 1..Len(invs) :
        (i # j /\ WritePending(i) /\ WritePending(j))
            => OutPath(invs[i].file) # OutPath(invs[j].file)

C7_BatchIsolation ==
    (/\ reported # <<>>
     /\ events = <<>>
     /\ \E i \in BatchIdx : invs[i].pc = "failed")
        => /\ phase \in {"watching", "built"}
           /\ workerStatus = NoCode
           /\ \A i \in BatchIdx : Fulfilled(invs[i].pc)
           /\ Cardinality(BatchIdx) = Cardinality(batchFiles[1])
           /\ reported = <<Cardinality(batchFiles[1])>>
           /\ \A i \in BatchIdx :
                invs[i].pc # "failed" =>
                    Trim(outFs[OutPath(invs[i].file)])
                        = Trim(FixedCode(invs[i].file, invs[i].ver, hasMap))

\* C8: the watch-triggered compiles are exactly one per add/change event, in
\* the order of the events, each for the file the event names; the batch
\* compiles are those of the one initial enumeration.
C8_OneCompilePerEvent ==
    LET W == SelectSeq(invs, LAMBDA r : r.origin = "watch") IN
    /\ Len(W) = Len(events)
    /\ \A k \in 1..Len(W) : W[k].file = events[k].file
    /\ batchFiles # <<>> => Cardinality(BatchIdx) = Cardinality(batchFiles[1])
    /\ Len(invs) = Cardinality(BatchIdx) + Len(events)

\* one file of several was changed and its compile is under way
C8_Witness ==
    /\ phase = "watching"
    /\ Cardinality(Watched) >= 2
    /\ Len(events) = 1
    /\ events[1].kind = "change"
    /\ \E i \in WatchIdx : invs[i].file = events[1].file /\ invs[i].pc # "transform"

\* C9: a file that the exclude patterns match (as the batch builder's
\* enumeration applies them) is never compiled, neither by the batch nor on a
\* watcher event, and the watcher excludes the same files by pattern.
C9_ExcludedNeverCompiled ==
    \A f \in present :
        /\ GlobIgnores(f, excludePatterns)
             => \A i \in 1..Len(invs) : invs[i].file # f
        /\ events # <<>> =>
             (GlobIgnores(f, excludePatterns)
                <=> MicromatchIsMatch(AbsPath(f), excludePatterns))

\* the status a worker that has stopped ends with: the argument of
\* process.exit, or 0 when main returned and nothing called process.exit
WorkerExit == IF workerStatus # NoCode THEN workerStatus ELSE 0

\* C12: a one-shot build whose batch enumerated files reports their count and
\* ends with status 0 even when some or all of their compiles failed; a
\* one-shot build that enumerated no file at all ends with a nonzero status.
C12_ExitReflectsProcessFailuresOnly ==
    (mode = "build" /\ phase \in {"built", "exited"}) =>
        /\ (batchFiles # <<>> /\ batchFiles[1] # {})
             => /\ phase = "built"
                /\ reported = <<Cardinality(batchFiles[1])>>
                /\ WorkerExit = 0
        /\ (batchFiles = <<>> \/ batchFiles[1] = {})
             => WorkerExit # 0

\* C18: when two or more events for the same source file were delivered and
\* every compile has settled without a failure, the output file holds the
\* compilation of the source text as it is now.
C18_LatestSourceWins ==
    \A f \in present :
        (/\ phase = "watching"
         /\ Cardinality({k \in 1..Len(events) : events[k].file = f}) >= 2
         /\ \A i \in 1..Len(invs) : invs[i].pc \in {"written", "skipped"})
            => Trim(outFs[OutPath(f)]) = Trim(FixedCode(f, srcVer[f], hasMap))

\* the compiles of f fail before anything is written
FailsEarly(f) == TransformFails(f, srcVer[f]) \/ RewriteThrows(f, srcVer[f])

\* C19: an invocation that fails with a transformation error or an import
\* resolution error never gets to the directory creation or to a write; the
\* step at which it fails changes no file, no directory and not the state of
\* the batch or the watcher, which goes on; and the output file of such a
\* source (when no other source shares it) is never written.
C19_FailedCompileWritesNothing ==
    /\ [](\A i \in 1..Len(invs) :
            FailsEarly(invs[i].file) => invs[i].pc \in {"transform", "failed"})
    /\ [](\A f \in present :
            (FailsEarly(f) /\ \A g \in present : OutPath(g) = OutPath(f) => g = f)
                => mtime[OutPath(f)] = 0)
    /\ [][(\E i \in 1..Len(invs) :
             /\ i <= Len(invs')
             /\ invs[i].pc = "transform"
             /\ invs'[i].pc = "failed")
            => /\ outFs' = outFs
               /\ mapFs' = mapFs
               /\ dirs' = dirs
               /\ mtime' = mtime
               /\ phase' = phase
               /\ workerStatus' = NoCode]_vars

\* a transformation error and a resolution error in one batch, the older
\* outputs of both sources still in place, another file written, and the
\* watcher attached
C19_Witness ==
    /\ phase = "watching"
    /\ \E i, j, k \in BatchIdx :
         /\ invs[i].file = fBad /\ invs[i].pc = "failed"
         /\ invs[j].file = fSpec /\ invs[j].pc = "failed"
         /\ invs[k].pc = "written"
    /\ outFs[OutPath(fBad)] # Absent /\ mtime[OutPath(fBad)] = 0
    /\ outFs[OutPath(fSpec)] # Absent /\ mtime[OutPath(fSpec)] = 0

(***************************************************************************)
(* Claims about the declaration process supervisor (checked under SpecTsc) *)
(***************************************************************************)

\* C10: in watch mode, whenever the declaration subprocess has exited (with
\* any exit code) and has not been replaced yet, a restart is pending on the
\* backoff timer, and the worker has not been terminated.
C10_EveryExitRestarts ==
    (tscMode = "watch" /\ tscProc = "exited")
        => /\ supPc = "backoff"
           /\ tscTimer # <<>>
           /\ tscStatus = NoCode

\* C11: in one-shot mode, once the declaration subprocess has ended (it exited
\* or it failed to start) the supervisor call has settled: with success when
\* the exit code is 0, and with a failure that ends the worker with a nonzero
\* status when it is not.
C11_OneShotAlwaysSettles ==
    (tscMode = "build" /\ tscProc \in {"exited", "errored"})
        => /\ supPc \in {"done", "failed"}
           /\ tscCode = 0 => (supPc = "done" /\ tscStatus = NoCode)
           /\ tscCode # 0 => (supPc = "failed" /\ tscStatus # NoCode /\ tscStatus # 0)

\* the subprocesses that were started and whose end (exit or spawn error) has
\* not been observed
TscAlive ==
    {k \in 1..tscStarts :
        /\ \E i \in 1..Len(tscLog) : tscLog[i].ev = "start" /\ tscLog[i].pid = k
        /\ ~\E i \in 1..Len(tscLog) :
              tscLog[i].ev \in {"exit", "error"} /\ tscLog[i].pid = k}

\* C20: in watch mode at most one declaration subprocess is alive at any time,
\* and every restart comes after the exit of the previous subprocess was
\* observed, no sooner than one backoff interval after it.
C20_SingleSubprocess ==
    tscMode = "watch" =>
        /\ Cardinality(TscAlive) <= 1
        /\ \A i \in 1..Len(tscLog) :
             (tscLog[i].ev = "start" /\ tscLog[i].pid > 1) =>
                \E j \in 1..(i - 1) :
                    /\ tscLog[j].ev = "exit"
                    /\ tscLog[j].pid = tscLog[i].pid - 1
                    /\ tscLog[i].at >= tscLog[j].at + BackoffMs

\* the subprocess was restarted and the replacement is running
C20_Witness ==
    /\ tscMode = "watch"
    /\ tscStarts >= 2
    /\ tscProc = "running"
    /\ TscAlive = {tscStarts}

(***************************************************************************)
(* Claims about the import rewriter (checked under SpecRewrite)            *)
(***************************************************************************)

\* a path with its extension replaced by .js
WithJsExtension(p) == SubSeq(p, 1, Len(p) - Len(extname(p))) \o ".js"

\* resolve() returned a source file of the project
ResolvedToSource ==
    /\ rwResolved.found
    /\ StartsWith(rwResolved.rel, "src/")
    /\ extname(rwResolved.rel) \in {".ts", ".tsx"}

\* C13: a relative specifier that resolves to a source file inside the project
\* is rewritten to exactly the path of that file's emitted output (the source
\* path with its extension replaced by .js), relative to the importing file
\* (stated here for the specifiers that do not end in .tsx, which C14 covers).
C13_ExactLoadablePath ==
    (/\ rwPc = "returned"
     /\ StartsWith(rwSpec, "./")
     /\ extname(rwSpec) # ".tsx"
     /\ ResolvedToSource)
        => "src/" \o SubSeq(rwOut, 3, Len(rwOut)) = WithJsExtension(rwResolved.rel)

\* C14: a specifier that ends in .ts or .tsx and resolves to a source file of
\* the project that is not a directory index is rewritten to the specifier
\* with that extension replaced by .js.
C14_SourceExtensionReplaced ==
    (/\ rwPc = "returned"
     /\ extname(rwSpec) \in {".ts", ".tsx"}
     /\ ResolvedToSource
     /\ basename(rwResolved.rel) \notin {"index.ts", "index.tsx", "index.js"})
        => rwOut = WithJsExtension(rwSpec)

\* C15: for a specifier with an extension other than .ts and .tsx, and for a
\* specifier of bare-package-name shape, the call ends by returning the
\* specifier unchanged, with no resolution attempted and no error thrown.
C15_UnchangedWithoutResolution ==
    (/\ rwPc \in {"returned", "thrown"}
     /\ \/ extname(rwSpec) \notin {"", ".ts", ".tsx"}
        \/ BarePackageName(rwSpec))
        => /\ rwPc = "returned"
           /\ rwOut = rwSpec
           /\ rwResolved = NotFound

====
